---- MODULE Spec2Model ----
(***************************************************************************)
(* The bytecode interpreter of src/main.rs as a state machine.  One action *)
(* per arm of the dispatch loop of main; the decoder (get_op), the operand *)
(* resolution (get_oprnd_value), the address classification (get_addr) and *)
(* the storage accessors (read_mem, write_mem) are operators.              *)
(***************************************************************************)
EXTENDS Integers, Sequences, FiniteSets, TLC

VARIABLES memory, registers, stack, ip, state, output, input, word, address

vars == <<memory, registers, stack, ip, state, output, input, word, address>>

machine == <<memory, registers, stack>>

----------------------------------------------------------------------------
(* Program constants                                                       *)

ADDRESS_RANGE == 32768

INTEGER_RANGE == 32768

MEMORY_SIZE == 65536

NUMBER_OF_REGISTERS == 8

U16 == 65536

(* Bounds of the model                                                     *)

MaxOutput == 40

MaxStack == 3

----------------------------------------------------------------------------
(* Bit operations on naturals (Rust's &, | and ^ on unsigned integers)     *)

RECURSIVE BitAnd(_, _)
BitAnd(x, y) ==
    IF x = 0 \/ y = 0 THEN 0
    ELSE (x % 2) * (y % 2) + 2 * BitAnd(x \div 2, y \div 2)

RECURSIVE BitOr(_, _)
BitOr(x, y) ==
    IF x = 0 THEN y
    ELSE IF y = 0 THEN x
    ELSE (IF x % 2 = 1 \/ y % 2 = 1 THEN 1 ELSE 0) + 2 * BitOr(x \div 2, y \div 2)

RECURSIVE BitXor(_, _)
BitXor(x, y) ==
    IF x = 0 THEN y
    ELSE IF y = 0 THEN x
    ELSE ((x + y) % 2) + 2 * BitXor(x \div 2, y \div 2)

----------------------------------------------------------------------------
(* Storage.  memory is the byte array of MEMORY_SIZE bytes, held as the    *)
(* function from the indices of its non-zero bytes to those bytes: every   *)
(* other index of 0..MEMORY_SIZE-1 holds 0.                                *)

MemByte(mem, i) == IF i \in DOMAIN mem THEN mem[i] ELSE 0

SetByte(mem, i, v) ==
    IF v = 0
    THEN [j \in DOMAIN mem \ {i} |-> mem[j]]
    ELSE [j \in DOMAIN mem \cup {i} |-> IF j = i THEN v ELSE mem[j]]

(* enum Address and Option<Address>                                        *)

Mem(a) == [tag |-> "Mem", addr |-> a]

Reg(a) == [tag |-> "Reg", addr |-> a]

None == [tag |-> "None", addr |-> 0]

(* off by one at the end of the Memory range                               *)
get_addr_inclusive(addr) ==
    IF addr <= ADDRESS_RANGE THEN Mem(addr)
    ELSE IF addr < ADDRESS_RANGE + NUMBER_OF_REGISTERS THEN Reg(addr - ADDRESS_RANGE)
    ELSE None

get_addr(addr) ==
    IF addr < ADDRESS_RANGE THEN Mem(addr)
    ELSE IF addr < ADDRESS_RANGE + NUMBER_OF_REGISTERS THEN Reg(addr - ADDRESS_RANGE)
    ELSE None

read_mem(mem, regs, a) ==
    IF a.tag = "Mem"
    THEN LET addr == a.addr * 2
             lower == MemByte(mem, addr)
             upper == MemByte(mem, addr + 1) * 256
         IN  BitOr(upper, lower)
    ELSE regs[a.addr]

(* the word address is used as the byte index: addr is not shifted         *)
write_mem_unshifted(mem, regs, a, value) ==
    IF a.tag = "Mem"
    THEN LET addr == a.addr
             lower == value % 256
             upper == (value \div 256) % 256
         IN  [memory |-> SetByte(SetByte(mem, addr, lower), addr + 1, upper),
              registers |-> regs]
    ELSE [memory |-> mem,
          registers |-> [regs EXCEPT ![a.addr] = value % U16]]

(* the two bytes are stored in the other order                             *)
write_mem_big_endian(mem, regs, a, value) ==
    IF a.tag = "Mem"
    THEN LET addr == a.addr * 2
             lower == value % 256
             upper == (value \div 256) % 256
         IN  [memory |-> SetByte(SetByte(mem, addr, upper), addr + 1, lower),
              registers |-> regs]
    ELSE [memory |-> mem,
          registers |-> [regs EXCEPT ![a.addr] = value % U16]]

(* write_mem yields the memory and the registers after the write           *)
write_mem(mem, regs, a, value) ==
    IF a.tag = "Mem"
    THEN LET addr == a.addr * 2
             lower == value % 256
             upper == (value \div 256) % 256
         IN  [memory |-> SetByte(SetByte(mem, addr, lower), addr + 1, upper),
              registers |-> regs]
    ELSE [memory |-> mem,
          registers |-> [regs EXCEPT ![a.addr] = value % U16]]

----------------------------------------------------------------------------
(* Decoder.  PANIC stands for a failed unwrap() inside the decoder.        *)

PANIC == -1

(* the second classification is skipped: the word is used as it is         *)
get_oprnd_value_unchecked(mem, regs, raw_addr) ==
    LET a0 == get_addr(raw_addr)
    IN  IF a0 = None THEN PANIC
        ELSE LET value == read_mem(mem, regs, a0)
             IN  IF value < INTEGER_RANGE \/ get_addr(value) = None THEN value
                 ELSE read_mem(mem, regs, get_addr(value))

(* the contents of the register are resolved once more                     *)
get_oprnd_value_chained(mem, regs, raw_addr) ==
    LET a0 == get_addr(raw_addr)
    IN  IF a0 = None THEN PANIC
        ELSE LET value == read_mem(mem, regs, a0)
             IN  IF value < INTEGER_RANGE THEN value
                 ELSE LET a1 == get_addr(value)
                      IN  IF a1 = None THEN PANIC
                          ELSE LET inner == read_mem(mem, regs, a1)
                               IN  IF get_addr(inner).tag = "Reg"
                                   THEN read_mem(mem, regs, get_addr(inner))
                                   ELSE inner

get_oprnd_value(mem, regs, raw_addr) ==
    LET a0 == get_addr(raw_addr)
    IN  IF a0 = None THEN PANIC
        ELSE LET value == read_mem(mem, regs, a0)
             IN  IF value < INTEGER_RANGE THEN value
                 ELSE LET a1 == get_addr(value)
                      IN  IF a1 = None THEN PANIC
                          ELSE read_mem(mem, regs, a1)

Instr(op, a, b, c) == [op |-> op, a |-> a, b |-> b, c |-> c]

NoInstr == Instr("None", 0, 0, 0)

PanicInstr == Instr("Panic", 0, 0, 0)

(* the raw word at raw_addr, PANIC when get_addr(raw_addr).unwrap() fails  *)
raw_word(mem, regs, raw_addr) ==
    IF get_addr(raw_addr) = None THEN PANIC
    ELSE read_mem(mem, regs, get_addr(raw_addr))

(* The four arms of the match of get_op, by number of operand words.       *)
(* raw_addr + k stays below 2^16: get_addr(raw_addr).unwrap() has let only *)
(* raw_addr < ADDRESS_RANGE + NUMBER_OF_REGISTERS through.                 *)
get_op_0(instr) ==
    CASE instr = 0 -> Instr("Halt", 0, 0, 0)
      [] instr = 18 -> Instr("Ret", 0, 0, 0)
      [] instr = 21 -> Instr("Noop", 0, 0, 0)
      [] OTHER -> NoInstr

get_op_1(mem, regs, raw_addr, instr) ==
    LET a_raw == raw_word(mem, regs, raw_addr + 1)
        a == get_oprnd_value(mem, regs, raw_addr + 1)
    IN  IF a_raw = PANIC \/ a = PANIC THEN PanicInstr
        ELSE CASE instr = 2 -> Instr("Push", a, 0, 0)
               [] instr = 3 -> Instr("Pop", a_raw, 0, 0)
               [] instr = 6 -> Instr("Jmp", a, 0, 0)
               [] instr = 17 -> Instr("Call", a, 0, 0)
               [] instr = 19 -> Instr("Out", a, 0, 0)
               [] instr = 20 -> Instr("In", a_raw, 0, 0)
               [] OTHER -> NoInstr

get_op_2(mem, regs, raw_addr, instr) ==
    LET a_raw == raw_word(mem, regs, raw_addr + 1)
        b_raw == raw_word(mem, regs, raw_addr + 2)
        a == get_oprnd_value(mem, regs, raw_addr + 1)
        b == get_oprnd_value(mem, regs, raw_addr + 2)
    IN  IF a_raw = PANIC \/ b_raw = PANIC \/ a = PANIC \/ b = PANIC
        THEN PanicInstr
        ELSE CASE instr = 1 -> Instr("Set", a_raw, b, 0)
               [] instr = 7 -> Instr("Jt", a, b, 0)
               [] instr = 8 -> Instr("Jf", a, b, 0)
               [] instr = 14 -> Instr("Not", a_raw, b, 0)
               [] instr = 15 -> Instr("Rmem", a_raw, b_raw, 0)
               [] instr = 16 -> Instr("Wmem", a, b, 0)
               [] OTHER -> NoInstr

get_op_3(mem, regs, raw_addr, instr) ==
    LET a_raw == raw_word(mem, regs, raw_addr + 1)
        b == get_oprnd_value(mem, regs, raw_addr + 2)
        c == get_oprnd_value(mem, regs, raw_addr + 3)
    IN  IF a_raw = PANIC \/ b = PANIC \/ c = PANIC THEN PanicInstr
        ELSE CASE instr = 4 -> Instr("Eq", a_raw, b, c)
               [] instr = 5 -> Instr("Gt", a_raw, b, c)
               [] instr = 9 -> Instr("Add", a_raw, b, c)
               [] instr = 10 -> Instr("Mult", a_raw, b, c)
               [] instr = 11 -> Instr("Mod", a_raw, b, c)
               [] instr = 12 -> Instr("And", a_raw, b, c)
               [] instr = 13 -> Instr("Or", a_raw, b, c)
               [] OTHER -> NoInstr

get_op(mem, regs, raw_addr) ==
    IF get_addr(raw_addr) = None THEN PanicInstr
    ELSE LET instr == read_mem(mem, regs, get_addr(raw_addr))
         IN  IF instr \in {0, 18, 21} THEN get_op_0(instr)
             ELSE IF instr \in {2, 3, 6, 17, 19, 20}
                  THEN get_op_1(mem, regs, raw_addr, instr)
             ELSE IF instr \in {1, 7, 8, 14, 15, 16}
                  THEN get_op_2(mem, regs, raw_addr, instr)
             ELSE IF instr \in {4, 5, 9, 10, 11, 12, 13}
                  THEN get_op_3(mem, regs, raw_addr, instr)
             ELSE NoInstr

----------------------------------------------------------------------------
(* Text written to the standard output, as bytes                           *)

(* "Please enter some text: "                                              *)
PROMPT ==
    <<80, 108, 101, 97, 115, 101, 32, 101, 110, 116, 101, 114, 32, 115, 111,
    109, 101, 32, 116, 101, 120, 116, 58, 32>>

(* "Set operand is not an argument" and the newline of println!            *)
SET_MESSAGE ==
    <<83, 101, 116, 32, 111, 112, 101, 114, 97, 110, 100, 32, 105, 115, 32,
    110, 111, 116, 32, 97, 110, 32, 97, 114, 103, 117, 109, 101, 110, 116,
    10>>

RECURSIVE Decimal(_)
Decimal(n) ==
    IF n < 10 THEN <<48 + n>> ELSE Decimal(n \div 10) \o <<48 + (n % 10)>>

RECURSIVE DebugList(_, _)
DebugList(regs, i) ==
    IF i = NUMBER_OF_REGISTERS - 1 THEN Decimal(regs[i])
    ELSE Decimal(regs[i]) \o <<44, 32>> \o DebugList(regs, i + 1)

(* println!("{:?}", machine.registers): "[r0, r1, ..., r7]" and a newline  *)
print_registers(regs) == <<91>> \o DebugList(regs, 0) \o <<93, 10>>

(* print!("{}", a): the number instead of the character                    *)
print_char_decimal(a) == Decimal(a)

(* print!("{}", (a as u8) as char): the UTF-8 encoding of the character    *)
(* whose code point is the low byte of a                                   *)
print_char(a) ==
    LET c == a % 256
    IN  IF c < 128 THEN <<c>> ELSE <<192 + (c \div 64), 128 + (c % 64)>>

----------------------------------------------------------------------------
(* Values computed by the arms of the dispatch loop                        *)

(* Gt with >= instead of >                                                 *)
comp_value_ge(instr) ==
    IF instr.op = "Eq"
    THEN (IF instr.b = instr.c THEN 1 ELSE 0)
    ELSE (IF instr.b >= instr.c THEN 1 ELSE 0)

(* comp_op: the value computed for Eq and Gt                               *)
comp_value(instr) ==
    IF instr.op = "Eq"
    THEN (IF instr.b = instr.c THEN 1 ELSE 0)
    ELSE (IF instr.b > instr.c THEN 1 ELSE 0)

(* the outcome of an arm that writes: the storage after write_mem, or a    *)
(* panic that leaves the storage as it was                                 *)
Written(st) == [panic |-> FALSE, memory |-> st.memory, registers |-> st.registers]

Unwound(mem, regs) == [panic |-> TRUE, memory |-> mem, registers |-> regs]

(* comp_op: get_addr(raw_addr).unwrap(), then write_mem                    *)
comp_op(mem, regs, instr) ==
    LET addr == get_addr(instr.a)
    IN  IF addr = None THEN Unwound(mem, regs)
        ELSE Written(write_mem(mem, regs, addr, comp_value(instr)))

(* the closures handed to bin_op, by name; x % y panics when y = 0         *)
closure(op, x, y) ==
    CASE op = "add" -> x + y
      [] op = "mult" -> x * y
      [] op = "mod" -> (IF y = 0 THEN PANIC ELSE x % y)
      [] op = "and" -> BitAnd(x, y)
      [] op = "or" -> BitOr(x, y)

(* Add and Mult without the reduction modulo INTEGER_RANGE                 *)
bin_result_unreduced(op, instr) == closure(op, instr.b, instr.c)

(* bin_op: the result before the cast to u16                               *)
bin_result(op, instr) ==
    IF instr.op \in {"Add", "Mult"}
    THEN closure(op, instr.b, instr.c) % INTEGER_RANGE
    ELSE closure(op, instr.b, instr.c)

bin_op(mem, regs, op, instr) ==
    LET addr == get_addr(instr.a)
        result == bin_result(op, instr)
    IN  IF addr = None \/ result = PANIC THEN Unwound(mem, regs)
        ELSE Written(write_mem(mem, regs, addr, result % U16))

(* the stack grows at the wrong end                                        *)
push_back(stk, value) == Append(stk, value)

(* LinkedList::push_front; pop_front takes Head and leaves Tail            *)
push_front(stk, value) == <<value>> \o stk

(* the return address is the address of the call itself                    *)
return_address_of_call(p) == p

(* the return address pushed by Call: ip + 2                               *)
return_address(p) == p + 2

(* the complement of all 16 bits                                           *)
not_value_16(b) == BitXor(b, 65535)

(* the value stored by Not: b ^ 0x7FFF                                     *)
not_value(b) == BitXor(b, 32767)

(* the value read by the Rmem arm, PANIC when an unwrap() fails            *)
rmem_value(mem, regs, b) ==
    LET addr_b == get_addr(b)
    IN  IF addr_b = None THEN PANIC
        ELSE IF addr_b.tag = "Mem" THEN read_mem(mem, regs, addr_b)
        ELSE LET temp_value == read_mem(mem, regs, addr_b)
                 addr_b2 == get_addr(temp_value)
             IN  IF addr_b2 = None THEN PANIC
                 ELSE read_mem(mem, regs, addr_b2)

----------------------------------------------------------------------------
(* Initial states: registers zeroed, empty stack, ip = 0 and a program     *)
(* image copied to the start of memory.                                    *)

OperandWords == {0, 1, 65, 32767, 32768, 32769, 32776}

Opcodes == 0..22

OperandCount(opcode) ==
    IF opcode \in {2, 3, 6, 17, 19, 20} THEN 1
    ELSE IF opcode \in {1, 7, 8, 14, 15, 16} THEN 2
    ELSE IF opcode \in {4, 5, 9, 10, 11, 12, 13} THEN 3
    ELSE 0

(* set r0 5; push 7,   rmem r1 1 (r1 becomes the word 32769)   and        *)
(* set r0 7; rmem r1 1 (r1 becomes the word 32768, the reference to r0)    *)
Preludes ==
    {<<>>, <<1, 32768, 5, 2, 7>>, <<15, 32769, 1>>,
     <<1, 32768, 7, 15, 32769, 1>>}

(* push x; push y; pop r0; pop r1                                          *)
StackPrograms ==
    {<<2, x, 2, y, 3, 32768, 3, 32769>> : x \in {4, 7, 32767}, y \in {4, 7, 32767}}

(* call 10; halt; ...; 10: ret                                             *)
CallPrograms == {<<17, 10, 0, 0, 0, 0, 0, 0, 0, 0, 18>>}

(* wmem 3 19; 3: noop (becomes out) 65; halt   and                         *)
(* wmem 5 19; jmp 5; 5: noop (becomes out) 65; halt                        *)
SelfModifyingPrograms == {<<16, 3, 19, 21, 65, 0>>, <<16, 5, 19, 6, 5, 21, 65, 0>>}

(* not r0 a; not r0 r0                                                     *)
NotPrograms ==
    {<<14, 32768, a, 14, 32768, 32768>> : a \in {0, 1, 65, 21845, 32767}}

(* wmem 32767 w; jmp 32767: a noop or a push in the last word of Memory    *)
LastWordPrograms == {<<16, 32767, w, 6, 32767>> : w \in {21, 2}}

Images ==
    UNION {UNION {{p \o <<opcode>> \o args :
                      args \in [1..OperandCount(opcode) -> OperandWords]} :
                  opcode \in Opcodes} : p \in Preludes}
    \cup StackPrograms \cup CallPrograms \cup SelfModifyingPrograms
    \cup NotPrograms \cup LastWordPrograms

(* the file challenge.bin holding the words of img, little-endian          *)
FileOf(img) ==
    [i \in 0..(2 * Len(img) - 1) |->
        IF i % 2 = 0 THEN img[(i \div 2) + 1] % 256
        ELSE img[(i \div 2) + 1] \div 256]

(* memory[i] = file[i] for every i, over the zeroed MEMORY                 *)
LoadFile(file) == [i \in {j \in DOMAIN file : file[j] # 0} |-> file[i]]

Lines == {<<>>, <<10>>, <<97, 10>>}

(* word and address are the argument and the result of get_addr in the     *)
(* specification AddrSpec; the machine leaves them alone                   *)
Unclassified == [tag |-> "Unclassified", addr |-> 0]

Init ==
    /\ \E img \in Images : memory = LoadFile(FileOf(img))
    /\ registers = [i \in 0..(NUMBER_OF_REGISTERS - 1) |-> 0]
    /\ stack = <<>>
    /\ ip = 0
    /\ state = "Running"
    /\ output = <<>>
    /\ input = <<>>
    /\ word = 0
    /\ address = Unclassified

----------------------------------------------------------------------------
(* The dispatch loop of main: one action per arm                           *)

Fetch == get_op(memory, registers, ip)

Running(name) == state = "Running" /\ Fetch.op = name

harness == <<word, address>>

(* a panic: the process ends, nothing else is written                      *)
Panicked ==
    /\ state' = "Faulted"
    /\ UNCHANGED <<memory, registers, stack, ip, output, input, harness>>

(* the storage after a write_mem, or a panic                               *)
Stored(result, next_ip) ==
    IF result.panic THEN Panicked
    ELSE /\ memory' = result.memory
         /\ registers' = result.registers
         /\ ip' = next_ip
         /\ UNCHANGED <<stack, state, output, input, harness>>

(* get_op(&mut machine, ip).unwrap() panics                                *)
DecodePanic ==
    /\ state = "Running"
    /\ Fetch.op \in {"None", "Panic"}
    /\ Panicked

Halt ==
    /\ Running("Halt")
    /\ state' = "Halted"
    /\ output' = output \o print_registers(registers)
    /\ UNCHANGED <<memory, registers, stack, ip, input, harness>>

Set ==
    /\ Running("Set")
    /\ LET addr == get_addr(Fetch.a)
       IN  IF addr = None THEN Panicked
           ELSE IF addr.tag = "Reg"
           THEN Stored(Written(write_mem(memory, registers, addr, Fetch.b)), ip + 3)
           ELSE /\ Len(output) < MaxOutput
                /\ output' = output \o SET_MESSAGE
                /\ UNCHANGED <<memory, registers, stack, ip, state, input, harness>>

Push ==
    /\ Running("Push")
    /\ Len(stack) < MaxStack
    /\ stack' = push_front(stack, Fetch.a)
    /\ ip' = ip + 2
    /\ UNCHANGED <<memory, registers, state, output, input, harness>>

Pop ==
    /\ Running("Pop")
    /\ LET addr == get_addr(Fetch.a)
       IN  IF addr = None \/ stack = <<>> THEN Panicked
           ELSE LET result == write_mem(memory, registers, addr, Head(stack))
                IN  /\ memory' = result.memory
                    /\ registers' = result.registers
                    /\ stack' = Tail(stack)
                    /\ ip' = ip + 2
                    /\ UNCHANGED <<state, output, input, harness>>

CompOp ==
    /\ Running("Eq") \/ Running("Gt")
    /\ Stored(comp_op(memory, registers, Fetch), ip + 4)

Jmp ==
    /\ Running("Jmp")
    /\ ip' = Fetch.a
    /\ UNCHANGED <<memory, registers, stack, state, output, input, harness>>

Jt ==
    /\ Running("Jt")
    /\ ip' = IF Fetch.a # 0 THEN Fetch.b ELSE ip + 3
    /\ UNCHANGED <<memory, registers, stack, state, output, input, harness>>

Jf ==
    /\ Running("Jf")
    /\ ip' = IF Fetch.a = 0 THEN Fetch.b ELSE ip + 3
    /\ UNCHANGED <<memory, registers, stack, state, output, input, harness>>

Add ==
    /\ Running("Add")
    /\ Stored(bin_op(memory, registers, "add", Fetch), ip + 4)

Mult ==
    /\ Running("Mult")
    /\ Stored(bin_op(memory, registers, "mult", Fetch), ip + 4)

Mod ==
    /\ Running("Mod")
    /\ Stored(bin_op(memory, registers, "mod", Fetch), ip + 4)

And ==
    /\ Running("And")
    /\ Stored(bin_op(memory, registers, "and", Fetch), ip + 4)

Or ==
    /\ Running("Or")
    /\ Stored(bin_op(memory, registers, "or", Fetch), ip + 4)

Not ==
    /\ Running("Not")
    /\ LET addr == get_addr(Fetch.a)
           value == not_value(Fetch.b)
       IN  IF addr = None THEN Panicked
           ELSE Stored(Written(write_mem(memory, registers, addr, value)), ip + 3)

Rmem ==
    /\ Running("Rmem")
    /\ LET addr_a == get_addr(Fetch.a)
           value == rmem_value(memory, registers, Fetch.b)
       IN  IF addr_a = None \/ value = PANIC THEN Panicked
           ELSE Stored(Written(write_mem(memory, registers, addr_a, value)), ip + 3)

Wmem ==
    /\ Running("Wmem")
    /\ LET addr == get_addr(Fetch.a)
       IN  IF addr = None THEN Panicked
           ELSE Stored(Written(write_mem(memory, registers, addr, Fetch.b)), ip + 3)

Call ==
    /\ Running("Call")
    /\ Len(stack) < MaxStack
    /\ stack' = push_front(stack, return_address(ip))
    /\ ip' = Fetch.a
    /\ UNCHANGED <<memory, registers, state, output, input, harness>>

Ret ==
    /\ Running("Ret")
    /\ IF stack = <<>> THEN Panicked
       ELSE /\ ip' = Head(stack)
            /\ stack' = Tail(stack)
            /\ UNCHANGED <<memory, registers, state, output, input, harness>>

Out ==
    /\ Running("Out")
    /\ Len(output) < MaxOutput
    /\ output' = output \o print_char(Fetch.a)
    /\ ip' = ip + 2
    /\ UNCHANGED <<memory, registers, stack, state, input, harness>>

(* the prompt is printed and a line is read into the local input; nothing  *)
(* is stored and ip stays                                                  *)
In ==
    /\ Running("In")
    /\ Len(output) < MaxOutput
    /\ output' = output \o PROMPT
    /\ \E line \in Lines : input' = line
    /\ UNCHANGED <<memory, registers, stack, ip, state, harness>>

Noop ==
    /\ Running("Noop")
    /\ ip' = ip + 1
    /\ UNCHANGED <<memory, registers, stack, state, output, input, harness>>

Next ==
    \/ DecodePanic
    \/ Halt
    \/ Set
    \/ Push
    \/ Pop
    \/ CompOp
    \/ Jmp
    \/ Jt
    \/ Jf
    \/ Add
    \/ Mult
    \/ Mod
    \/ And
    \/ Or
    \/ Not
    \/ Rmem
    \/ Wmem
    \/ Call
    \/ Ret
    \/ Out
    \/ In
    \/ Noop

Spec == Init /\ [][Next]_vars

(* the loop performs the arm of the instruction it fetched; the arms of    *)
(* Out and Halt wait for nothing                                           *)
FairSpec == Spec /\ WF_vars(Out) /\ WF_vars(Halt)

(* get_addr applied to every 16-bit word                                   *)
AddrInit ==
    /\ memory = LoadFile(FileOf(<<>>))
    /\ registers = [i \in 0..(NUMBER_OF_REGISTERS - 1) |-> 0]
    /\ stack = <<>>
    /\ ip = 0
    /\ state = "Running"
    /\ output = <<>>
    /\ input = <<>>
    /\ word \in 0..(U16 - 1)
    /\ address = Unclassified

Classify ==
    /\ address = Unclassified
    /\ address' = get_addr(word)
    /\ UNCHANGED <<memory, registers, stack, ip, state, output, input, word>>

AddrNext == Classify

AddrSpec == AddrInit /\ [][AddrNext]_vars

TypeOK ==
    /\ \A i \in DOMAIN memory : i \in 0..(MEMORY_SIZE - 1) /\ memory[i] \in 1..255
    /\ \A i \in 0..(NUMBER_OF_REGISTERS - 1) : registers[i] \in 0..(U16 - 1)
    /\ \A i \in 1..Len(stack) : stack[i] \in 0..(U16 - 1)
    /\ ip \in 0..(U16 - 1)
    /\ state \in {"Running", "Halted", "Faulted"}
    /\ \A i \in 1..Len(output) : output[i] \in 0..255

----------------------------------------------------------------------------
(* Vocabulary of the properties: the instruction at ip as the words of the *)
(* storage, read without the decoder.                                      *)

OpWord == raw_word(memory, registers, ip)

Operand(k) == raw_word(memory, registers, ip + k)

IsRegisterWord(w) == w >= 32768 /\ w <= 32775

(* the effective value of an operand word: one level of indirection        *)
Effective(w) == IF w < 32768 THEN w ELSE registers[w - 32768]

(* the Memory word at address a, from its two bytes                        *)
MemoryWord(a) == MemByte(memory, 2 * a) + 256 * MemByte(memory, 2 * a + 1)

(* the words of img are in Memory from address at on                       *)
Holds(at, img) == \A i \in 1..Len(img) : MemoryWord(at + i - 1) = img[i]

(* the operand slots with the value role, by opcode                        *)
ValueSlots(opcode) ==
    CASE opcode \in {2, 6, 17, 19} -> {1}
      [] opcode \in {1, 14, 15} -> {2}
      [] opcode \in {7, 8, 16} -> {1, 2}
      [] opcode \in {4, 5, 9, 10, 11, 12, 13} -> {2, 3}
      [] OTHER -> {}

----------------------------------------------------------------------------
(* C1: the image `out 65; halt` emits the byte 65 and then reaches Halted; *)
(* from Halted on nothing is fetched and memory, registers and stack stay  *)
(* as they are.                                                            *)
C1_OutHaltImage == Holds(0, <<19, 65, 0>>) /\ DOMAIN memory = {0, 2}

C1_OutThenHalt ==
    /\ (C1_OutHaltImage /\ ip = 0) => <>(state = "Halted" /\ output # <<>>
                                          /\ Head(output) = 65)
    /\ [][state = "Halted" => UNCHANGED vars]_vars

C1_Witness ==
    /\ C1_OutHaltImage
    /\ state = "Halted"
    /\ ip = 2
    /\ Head(output) = 65

(* C2: the output is exactly one byte a & 0xFF per executed out, and no    *)
(* other step appends to it.                                               *)
C2_OutputIsOutBytes ==
    [][output' = IF state = "Running" /\ OpWord = 19 /\ state' = "Running"
                 THEN Append(output, Effective(Operand(1)) % 256)
                 ELSE output]_vars

(* C3: `in d` with a register d stores the next byte of the line read in d *)
C3_InStoresByte ==
    [][(state = "Running" /\ OpWord = 20 /\ IsRegisterWord(Operand(1))
          /\ input' # <<>>)
        => registers'[Operand(1) - 32768] = Head(input')]_vars

(* C4: `set d v` with d in 0..32767 faults and writes neither memory nor   *)
(* registers.                                                              *)
C4_SetMemoryFaults ==
    [][(state = "Running" /\ OpWord = 1 /\ Operand(1) < 32768)
        => (state' = "Faulted" /\ memory' = memory /\ registers' = registers)]_vars

(* C5: pop, eq, gt, add, mult, mod, and, or, not, rmem with a destination  *)
(* word in 0..32767 fault and leave Memory unchanged.                      *)
C5_MemoryDestinationFaults ==
    [][(state = "Running" /\ OpWord \in {3, 4, 5, 9, 10, 11, 12, 13, 14, 15}
          /\ Operand(1) < 32768)
        => (state' = "Faulted" /\ memory' = memory)]_vars

(* C6: an opcode word outside 0..21, a value-role operand word >= 32776,   *)
(* and pop or ret on an empty stack each end the run in Faulted at once,   *)
(* with memory, registers and stack as before; nothing runs after a fault. *)
C6_FaultCase ==
    /\ state = "Running"
    /\ \/ OpWord > 21
       \/ OpWord \in 0..21 /\ \E k \in ValueSlots(OpWord) : Operand(k) >= 32776
       \/ OpWord \in {3, 18} /\ stack = <<>>

C6_FaultsAreImmediate ==
    /\ [][C6_FaultCase => (state' = "Faulted" /\ UNCHANGED <<memory, registers, stack>>)]_vars
    /\ [][state = "Faulted" => UNCHANGED vars]_vars

C6_Witness ==
    /\ state = "Faulted"
    /\ OpWord = 2
    /\ Operand(1) >= 32776
    /\ stack = <<7>>
    /\ registers[0] = 5

(* C7: get_addr gives Memory address w for w in 0..32767, register index   *)
(* w - 32768 (in 0..7) for w in 32768..32775 and None for w >= 32776.      *)
C7_Classification ==
    address # Unclassified =>
        /\ (word <= 32767 => address = [tag |-> "Mem", addr |-> word])
        /\ ((word >= 32768 /\ word <= 32775) =>
                address = [tag |-> "Reg", addr |-> word - 32768])
        /\ (word >= 32776 => address = None)
        /\ (address.tag = "Reg" => (word >= 32768 /\ address.addr \in 0..7))

C7_Witness == word = 32775 /\ address = [tag |-> "Reg", addr |-> 7]

(* C8: with effective values a, b in 0..32767 and a register d, add stores *)
(* (a + b) mod 32768 and mult stores (a * b) mod 32768 in d.               *)
C8_AddMultModulo ==
    [][(state = "Running" /\ OpWord \in {9, 10} /\ IsRegisterWord(Operand(1))
          /\ Operand(2) \in 0..32775 /\ Operand(3) \in 0..32775
          /\ Effective(Operand(2)) <= 32767 /\ Effective(Operand(3)) <= 32767)
        => LET a == Effective(Operand(2))
               b == Effective(Operand(3))
               d == Operand(1) - 32768
           IN  /\ state' = "Running"
               /\ registers'[d] = (IF OpWord = 9 THEN a + b ELSE a * b) % 32768
               /\ registers'[d] < 32768]_vars

C8_Witness ==
    /\ Holds(0, <<10, 32768, 32767, 32767>>)
    /\ ip = 4
    /\ registers[0] = 1

(* C9: gt stores 1 in register d when a > b and 0 otherwise (0 when        *)
(* a = b), eq stores 1 when a = b and 0 otherwise.                         *)
C9_EqGt ==
    [][(state = "Running" /\ OpWord \in {4, 5} /\ IsRegisterWord(Operand(1))
          /\ Operand(2) \in 0..32775 /\ Operand(3) \in 0..32775)
        => LET a == Effective(Operand(2))
               b == Effective(Operand(3))
               d == Operand(1) - 32768
           IN  /\ state' = "Running"
               /\ registers'[d] \in {0, 1}
               /\ OpWord = 4 => (registers'[d] = 1 <=> a = b)
               /\ OpWord = 5 => (registers'[d] = 1 <=> a > b)]_vars

C9_Witness ==
    /\ Holds(0, <<1, 32768, 5, 2, 7, 5, 32768, 65, 65>>)
    /\ ip = 9
    /\ registers[0] = 0

(* C10: rmem d a stores in register d the Memory word at the effective     *)
(* value of a, never the contents of a register.                           *)
C10_RmemReadsMemory ==
    [][(state = "Running" /\ OpWord = 15 /\ IsRegisterWord(Operand(1))
          /\ Operand(2) \in 0..32775 /\ state' = "Running")
        => /\ Effective(Operand(2)) < 32768
           /\ registers'[Operand(1) - 32768] = MemoryWord(Effective(Operand(2)))]_vars

(* C11: the stack is LIFO: push puts the effective value on top, pop d     *)
(* with a register d stores the top (the most recent value not yet popped) *)
(* and removes it; push x; push y; pop r0; pop r1 gives r0 = y and r1 = x. *)
C11_PushPopSteps ==
    /\ (state = "Running" /\ OpWord = 2 /\ Operand(1) \in 0..32775)
         => (Len(stack') = Len(stack) + 1
             /\ stack'[1] = Effective(Operand(1))
             /\ \A i \in 1..Len(stack) : stack'[i + 1] = stack[i])
    /\ (state = "Running" /\ OpWord = 3 /\ IsRegisterWord(Operand(1))
          /\ stack # <<>>)
         => (registers'[Operand(1) - 32768] = stack[1]
             /\ Len(stack') = Len(stack) - 1
             /\ \A i \in 1..Len(stack') : stack'[i] = stack[i + 1])

C11_StackIsLIFO ==
    /\ [][C11_PushPopSteps]_vars
    /\ [](\A x, y \in {4, 7, 32767} :
            (Holds(0, <<2, x, 2, y, 3, 32768, 3, 32769>>) /\ ip = 8)
                => (registers[0] = y /\ registers[1] = x))

C11_Witness ==
    /\ Holds(0, <<2, 4, 2, 7, 3, 32768, 3, 32769>>)
    /\ ip = 8
    /\ registers[0] = 7
    /\ registers[1] = 4
    /\ stack = <<>>

(* C12: call t at pc = p pushes p + 2 and sets pc = t; ret with that word  *)
(* on top sets pc = p + 2 and removes it; call 10 at 0 and the ret at 10   *)
(* return to 2.                                                            *)
C12_CallRetSteps ==
    /\ (state = "Running" /\ OpWord = 17 /\ Operand(1) \in 0..32775)
         => (ip' = Effective(Operand(1))
             /\ Len(stack') = Len(stack) + 1
             /\ stack'[1] = ip + 2
             /\ \A i \in 1..Len(stack) : stack'[i + 1] = stack[i])
    /\ (state = "Running" /\ OpWord = 18 /\ stack # <<>>)
         => (ip' = stack[1]
             /\ Len(stack') = Len(stack) - 1
             /\ \A i \in 1..Len(stack') : stack'[i] = stack[i + 1])

C12_CallThenRet ==
    /\ [][C12_CallRetSteps]_vars
    /\ []((Holds(0, <<17, 10>>) /\ MemoryWord(10) = 18 /\ state = "Halted")
            => (ip = 2 /\ stack = <<>>))

C12_Witness ==
    /\ Holds(0, <<17, 10>>)
    /\ MemoryWord(10) = 18
    /\ state = "Halted"
    /\ ip = 2
    /\ stack = <<>>

(* C13: every fetch decodes the current Memory: after wmem a b the word at *)
(* a is b, and when ip reaches a (by fall-through or by jmp) the opcode    *)
(* executed there is b with the operands now in Memory, not the words of   *)
(* the loaded image.                                                       *)
C13_WmemStep ==
    (state = "Running" /\ OpWord = 16 /\ Operand(1) \in 0..32775
       /\ Operand(2) \in 0..32775 /\ Effective(Operand(1)) < 32768)
      => LET a == Effective(Operand(1))
             b == Effective(Operand(2))
         IN  /\ MemByte(memory', 2 * a) + 256 * MemByte(memory', 2 * a + 1) = b
             /\ ip' = ip + 3

(* the images whose noop at 3 (or 5) has been overwritten with out         *)
C13_Rewritten ==
    \/ Holds(0, <<16, 3, 19, 19, 65, 0>>)
    \/ Holds(0, <<16, 5, 19, 6, 5, 19, 65, 0>>)

C13_FetchReadsCurrentMemory ==
    /\ [][C13_WmemStep]_vars
    /\ [][(C13_Rewritten /\ state = "Running" /\ OpWord = 19)
            => (output' = Append(output, 65) /\ ip' = ip + 2)]_vars
    /\ []((Holds(0, <<16, 3>>) \/ Holds(0, <<16, 5, 19, 6, 5>>))
            => /\ state # "Faulted"
               /\ (ip > 2 => C13_Rewritten)
               /\ (state = "Halted" => (output # <<>> /\ Head(output) = 65)))

C13_Witness ==
    /\ Holds(0, <<16, 5, 19, 6, 5, 19, 65, 0>>)
    /\ state = "Halted"
    /\ ip = 7
    /\ Head(output) = 65

(* C14: for a in 0..32767, not d a stores a XOR 0x7FFF = 32767 - a, which  *)
(* is in 0..32767, and not d d on that result leaves d = a.                *)
C14_NotStep ==
    (state = "Running" /\ OpWord = 14 /\ IsRegisterWord(Operand(1))
       /\ Operand(2) \in 0..32775 /\ Effective(Operand(2)) <= 32767)
      => /\ registers'[Operand(1) - 32768] = 32767 - Effective(Operand(2))
         /\ registers'[Operand(1) - 32768] \in 0..32767

C14_NotIsInvolution ==
    /\ [][C14_NotStep]_vars
    /\ [](\A a \in {0, 1, 65, 21845, 32767} :
            Holds(0, <<14, 32768, a, 14, 32768, 32768>>)
                => /\ (ip = 3 => registers[0] = 32767 - a)
                   /\ (ip = 6 => registers[0] = a))

C14_Witness ==
    /\ Holds(0, <<14, 32768, 21845, 14, 32768, 32768>>)
    /\ ip = 6
    /\ registers[0] = 21845

(* the total word length of an instruction, by opcode                      *)
InstructionLength(opcode) ==
    CASE opcode \in {0, 18, 21} -> 1
      [] opcode \in {2, 3, 6, 17, 19, 20} -> 2
      [] opcode \in {1, 7, 8, 14, 15, 16} -> 3
      [] OTHER -> 4

(* C15: after an instruction that neither faults nor sets pc (all but      *)
(* halt, jmp, a taken jt/jf, call and ret) the new pc is the old pc plus   *)
(* the instruction's length.                                               *)
C15_Sequential ==
    /\ state = "Running"
    /\ state' = "Running"
    /\ \/ OpWord \in {1, 2, 3, 4, 5, 9, 10, 11, 12, 13, 14, 15, 16, 19, 20, 21}
       \/ OpWord = 7 /\ Operand(1) \in 0..32775 /\ Effective(Operand(1)) = 0
       \/ OpWord = 8 /\ Operand(1) \in 0..32775 /\ Effective(Operand(1)) # 0

C15_PcAdvances ==
    [][C15_Sequential => ip' = ip + InstructionLength(OpWord)]_vars

(* C16: a value-role operand is its word when the word is in 0..32767 and  *)
(* the contents of register word - 32768 when it is in 32768..32775, not   *)
(* resolved further; set, push, jmp, out and wmem use that value.          *)
C16_UsesEffectiveValues ==
    /\ (OpWord = 1 /\ IsRegisterWord(Operand(1)) /\ Operand(2) \in 0..32775)
         => registers'[Operand(1) - 32768] = Effective(Operand(2))
    /\ (OpWord = 2 /\ Operand(1) \in 0..32775)
         => stack'[1] = Effective(Operand(1))
    /\ (OpWord = 6 /\ Operand(1) \in 0..32775)
         => ip' = Effective(Operand(1))
    /\ (OpWord = 19 /\ Operand(1) \in 0..32775
          /\ Effective(Operand(1)) % 256 < 128)
         => output' = Append(output, Effective(Operand(1)) % 256)
    /\ (OpWord = 16 /\ Operand(1) \in 0..32775 /\ Operand(2) \in 0..32775
          /\ Effective(Operand(1)) < 32768)
         => LET a == Effective(Operand(1))
            IN  MemByte(memory', 2 * a) + 256 * MemByte(memory', 2 * a + 1)
                    = Effective(Operand(2))

C16_OneLevelOfIndirection ==
    [][state = "Running" => C16_UsesEffectiveValues]_vars

(* set r0 7; rmem r1 1; push r1 has pushed the contents of r1, the word    *)
(* 32768, and not the contents of r0                                       *)
C16_Witness ==
    /\ Holds(0, <<1, 32768, 7, 15, 32769, 1, 2, 32769>>)
    /\ ip = 8
    /\ registers[0] = 7
    /\ registers[1] = 32768
    /\ stack = <<32768>>

(* C17: every register holds a value in 0..32767 in every reachable state. *)
C17_RegistersHoldLiterals ==
    \A i \in 0..7 : registers[i] \in 0..32767

(* C18: at every fetch pc is in 0..32767 and the opcode word and all its   *)
(* operand words are Memory words: no instruction word is read from a      *)
(* register.                                                               *)
C18_FetchFromMemory ==
    state = "Running" =>
        /\ ip \notin 32768..32775
        /\ ip <= 32767 =>
             \A k \in 1..(InstructionLength(MemoryWord(ip)) - 1) :
                 ip + k \notin 32768..32775

(* C19: an instruction with an opcode in 0..21, operand words < 32776,     *)
(* effective values in 0..32767, a register destination where one is       *)
(* required and a non-empty stack for pop and ret does not fault.          *)
C19_WellFormed ==
    /\ state = "Running"
    /\ ip <= 32764
    /\ OpWord \in 0..21
    /\ \A k \in 1..(InstructionLength(OpWord) - 1) : Operand(k) \in 0..32775
    /\ \A k \in ValueSlots(OpWord) : Effective(Operand(k)) \in 0..32767
    /\ OpWord \in {1, 3, 4, 5, 9, 10, 11, 12, 13, 14, 15, 20}
         => IsRegisterWord(Operand(1))
    /\ OpWord \in {3, 18} => stack # <<>>

C19_OnlyListedFaults ==
    [][C19_WellFormed => state' # "Faulted"]_vars

(* C20: no access is out of bounds: Memory bytes have indices in 0..65535  *)
(* and the addresses of the fetch are Memory words or registers 0..7; a    *)
(* step writes at most the two bytes of one word, or one register; wmem of *)
(* b to Memory address a stores b little-endian at bytes 2a and 2a + 1 and *)
(* changes no other byte and no register.                                  *)
C20_UnchangedExcept(a) ==
    \A i \in (DOMAIN memory \cup DOMAIN memory') \ {2 * a, 2 * a + 1} :
        MemByte(memory', i) = MemByte(memory, i)

(* the indices of the bytes that the step changes                          *)
C20_ChangedBytes ==
    {i \in DOMAIN memory \cup DOMAIN memory' : MemByte(memory', i) # MemByte(memory, i)}

C20_WriteStep ==
    /\ \A i, j \in C20_ChangedBytes : i \div 2 = j \div 2
    /\ \A i \in C20_ChangedBytes : i \div 2 \in 0..32767
    /\ memory' # memory => registers' = registers
    /\ Cardinality({i \in 0..7 : registers'[i] # registers[i]}) <= 1
    /\ (state = "Running" /\ OpWord = 16 /\ Operand(1) \in 0..32775
          /\ Operand(2) \in 0..32775 /\ Effective(Operand(1)) < 32768)
         => LET a == Effective(Operand(1))
                b == Effective(Operand(2))
            IN  /\ MemByte(memory', 2 * a) = b % 256
                /\ MemByte(memory', 2 * a + 1) = b \div 256
                /\ read_mem(memory', registers', [tag |-> "Mem", addr |-> a]) = b
                /\ C20_UnchangedExcept(a)
                /\ registers' = registers

C20_InBounds ==
    /\ \A i \in DOMAIN memory : i \in 0..65535
    /\ DOMAIN registers = 0..7
    /\ \A k \in 0..3 :
         LET a == get_addr(ip + k)
         IN  /\ a.tag = "Mem" => (2 * a.addr >= 0 /\ 2 * a.addr + 1 <= 65535)
             /\ a.tag = "Reg" => a.addr \in 0..7

C20_NoOutOfBounds ==
    /\ []C20_InBounds
    /\ [][C20_WriteStep]_vars

C20_Witness ==
    /\ Holds(0, <<16, 65, 32767>>)
    /\ ip = 3
    /\ MemByte(memory, 130) = 255
    /\ MemByte(memory, 131) = 127
    /\ MemoryWord(64) = 0
    /\ MemoryWord(66) = 0
    /\ DOMAIN memory = {0, 2, 4, 5, 130, 131}

====
